---- MODULE Spec2Model ----
(***************************************************************************)
(* wespe: FacebookBatch (facebook/facebook_batch.py), its retry predicate  *)
(* (facebook/retries.py), the error classification                         *)
(* (facebook/facebook_batch_request_error.py) and FacebookBatchUploader    *)
(* (facebook/facebook_batch_uploader.py), as one state machine.            *)
(*                                                                         *)
(* One uploader is constructed over a request list and executed.           *)
(* FacebookBatch.execute is wrapped by tenacity's @retry(); the loop of    *)
(* the decorator (begin, attempt, decide, sleep) is modelled step by step, *)
(* with the shared Retrying settings that every attempt re-initialises:    *)
(* the Retrying object reached through execute.retry is the one that runs  *)
(* the loop, so the settings written during an attempt are the ones read   *)
(* after it (the tests of the repository count on this).  The remote batch *)
(* handle delivers one callback per registered request, in the order of    *)
(* registration, before its blocking execute returns.                      *)
(*                                                                         *)
(* Spec          every call on the remote client returns                   *)
(* FairSpec      the same, and the thread of control keeps running         *)
(* SpecClient    a call on the remote client may raise                     *)
(* SpecBackoff   the wait settings of the class are tweaked                *)
(* SpecConstruct a FacebookBatch is constructed directly                   *)
(* SpecReexecute the uploader's execute is called again after it ended      *)
(* SpecBatch     one FacebookBatch is used directly and executed again      *)
(* SpecBatches   several FacebookBatch objects, each with its own settings  *)
(* SpecRead      the caller reads the accessors between the calls           *)
(* SpecLegacy    the FacebookBatch of the single-module facebook.py         *)
(* SpecChunks    the uploader with Batches allowed two attempts             *)
(* SpecStubbed   the uploader over long lists, Batch.execute stubbed        *)
(***************************************************************************)
EXTENDS Integers, Sequences, FiniteSets, TLC

\* ---------------------------------------------------------------- bounds
\* Longest request list given to the uploader.
MaxRequests == 3
\* Largest small chunk_size tried (besides the limits 50 and 51, and 0).
MaxChunk == 2
\* Largest overridden value of FacebookBatch.MAX_ATTEMPTS (besides the default).
MaxAttemptsOverride == 2
\* Longest request list handed directly to the constructor of FacebookBatch.
MaxConstructLen == 52
\* Most calls of FacebookBatchUploader.execute on one uploader.
MaxExecutions == 2
\* Most FacebookBatch objects a caller constructs and executes directly.
MaxDirectBatches == 2
\* Most calls of FacebookBatch.execute on one directly used Batch.
MaxBatchExecutions == 3
\* Most accessor reads a caller makes in one run.
MaxReads == 2

\* ------------------------------------------------------ program constants
TestChunkSize == 5
DEFAULT_MAX_ATTEMPTS == 5
WAIT_EXPONENTIAL_MULTIPLIER == 1
WAIT_EXPONENTIAL_MIN_IN_SECONDS == 1
WAIT_EXPONENTIAL_MAX_IN_SECONDS == 10
MAX_REQUESTS_PER_BATCH == 50
MAX_CHUNK_SIZE == 50
HTTP_INTERNAL_SERVER_ERROR == 500

VARIABLES
    requests,        \* FacebookBatchUploader._requests
    executions,      \* calls of FacebookBatchUploader.execute made so far
    batches,         \* FacebookBatchUploader._batches: the FacebookBatch objects
    chunk_size,      \* the argument of FacebookBatchUploader.execute
    i,               \* the loop variable of FacebookBatchUploader.execute
    pc,              \* position of the single thread of control
    raised,          \* the exception FacebookBatchUploader.execute ended with
    exception_msg,   \* the numbers formatted into BatchExecutionError's message
    MAX_ATTEMPTS,    \* FacebookBatch.MAX_ATTEMPTS (class attribute, tweakable)
    wait_settings,   \* FacebookBatch.WAIT_EXPONENTIAL_* (class attributes, tweakable)
    wait_exponent,   \* the exponent the installed tenacity gives wait_exponential
    retry_settings,  \* FacebookBatch.execute.retry: the decorator's Retrying object
    statistics,      \* Retrying.statistics of the running execute call
    handle,          \* FacebookBatch._batch: requests added to the round's handle
    pending,         \* registered requests whose callback is still to come
    outcome,         \* how the running FacebookBatch.execute call ended
    calls,           \* per Batch: calls observed on the collaborator and decorator
    reads            \* accessor reads made by the caller so far

vars == <<requests, executions, batches, chunk_size, i, pc, raised, exception_msg,
          MAX_ATTEMPTS, wait_settings, wait_exponent, retry_settings, statistics,
          handle, pending, outcome, calls, reads>>

\* ---------------------------------------------------------------- values
None == [none |-> TRUE]

Min(a, b) == IF a < b THEN a ELSE b
Max(a, b) == IF a > b THEN a ELSE b

\* The error objects the remote platform can answer a request with, as far as
\* the classification reads them: api_transient_error() and http_status().  A
\* client error (400) with and without the platform's flag, and two server
\* errors (500, 503) without it.
RequestErrors ==
    { [api_transient_error |-> FALSE, http_status |-> 400],
      [api_transient_error |-> TRUE,  http_status |-> 400],
      [api_transient_error |-> FALSE, http_status |-> 500],
      [api_transient_error |-> FALSE, http_status |-> 503] }

\* FacebookBatchResponse.__init__: data is the payload of the remote response.
FacebookBatchResponse(request, response) ==
    [request |-> request, data |-> response]

\* Variant: only the platform's flag decides, the HTTP status is not read.
FacebookBatchRequestErrorFlagOnly(request, request_error) ==
    [request |-> request,
     request_error |-> request_error,
     is_transient |-> request_error.api_transient_error]

\* FacebookBatchRequestError.__init__
FacebookBatchRequestError(request, request_error) ==
    [request |-> request,
     request_error |-> request_error,
     is_transient |-> (request_error.api_transient_error
                       \/ request_error.http_status = HTTP_INTERNAL_SERVER_ERROR)]

\* Variant: the limit is checked with >=, so a list of exactly 50 is refused.
FacebookBatchLimitOffByOne(reqs) ==
    IF Len(reqs) = 0
    THEN [raises |-> "NoFacebookRequestProvidedError"]
    ELSE IF Len(reqs) >= MAX_REQUESTS_PER_BATCH
    THEN [raises |-> "TooManyRequestsPerBatchError"]
    ELSE [raises |-> "None",
          requests |-> reqs,
          responses |-> [k \in 1..Len(reqs) |-> None],
          errors |-> [k \in 1..Len(reqs) |-> None]]

\* FacebookBatch.__init__
FacebookBatch(reqs) ==
    IF Len(reqs) = 0
    THEN [raises |-> "NoFacebookRequestProvidedError"]
    ELSE IF Len(reqs) > MAX_REQUESTS_PER_BATCH
    THEN [raises |-> "TooManyRequestsPerBatchError"]
    ELSE [raises |-> "None",
          requests |-> reqs,
          responses |-> [k \in 1..Len(reqs) |-> None],
          errors |-> [k \in 1..Len(reqs) |-> None]]

\* Variant: every request is registered in every round.
ShouldAddRequestAlways(response, error) == TRUE

\* Variant: resubmits every failed request, transient or not.
ShouldAddRequestAnyError(response, error) ==
    \/ (response = None /\ error = None)
    \/ error # None

\* The condition of the registration loop of FacebookBatch.execute.
ShouldAddRequest(response, error) ==
    \/ (response = None /\ error = None)
    \/ (error # None /\ error.is_transient)

\* The indices FacebookBatch.execute adds to the fresh handle, in order.
RECURSIVE AddRequests(_, _)
AddRequests(batch, k) ==
    IF k > Len(batch.requests) THEN <<>>
    ELSE IF ShouldAddRequest(batch.responses[k], batch.errors[k])
         THEN <<k>> \o AddRequests(batch, k + 1)
         ELSE AddRequests(batch, k + 1)

\* Variant: the predicate of the single-module version (all instead of any).
should_retry_all(facebook_batch) ==
    \A k \in 1..Len(facebook_batch.errors) :
        /\ facebook_batch.errors[k] # None
        /\ facebook_batch.errors[k].is_transient

\* Variant: retries on any recorded error, transient or not.
should_retry_any_error(facebook_batch) ==
    \E k \in 1..Len(facebook_batch.errors) : facebook_batch.errors[k] # None

\* facebook/retries.py
should_retry_facebook_batch(facebook_batch) ==
    \E k \in 1..Len(facebook_batch.errors) :
        /\ facebook_batch.errors[k] # None
        /\ facebook_batch.errors[k].is_transient

\* batch_uploaders/retries.py, the predicate of the single-module version:
\* all(...) over every slot, an empty slot counting as False, and only the
\* platform's flag read.
should_retry_facebook_batch_legacy(facebook_batch) ==
    \A k \in 1..Len(facebook_batch.errors) :
        /\ facebook_batch.errors[k] # None
        /\ facebook_batch.errors[k].request_error.api_transient_error

\* @retry() with no arguments: retry_if_exception_type(), stop_never, wait_none().
DefaultRetrying ==
    [retry |-> "retry_if_exception_type", stop |-> "stop_never", max_attempt_number |-> 0,
     wait |-> "wait_none", multiplier |-> 0, min |-> 0, max |-> 0]

\* Variant: the stop condition is set one attempt too late.
InitializeOneAttemptMore(max_attempts, wait) ==
    [retry |-> "retry_if_result", stop |-> "stop_after_attempt",
     max_attempt_number |-> max_attempts + 1,
     wait |-> "wait_exponential",
     multiplier |-> wait.multiplier,
     min |-> wait.min,
     max |-> wait.max]

\* FacebookBatch._initialize_execution_retrial_conditions
InitializeExecutionRetrialConditions(max_attempts, wait) ==
    [retry |-> "retry_if_result", stop |-> "stop_after_attempt",
     max_attempt_number |-> max_attempts,
     wait |-> "wait_exponential",
     multiplier |-> wait.multiplier,
     min |-> wait.min,
     max |-> wait.max]

\* retry_settings.retry applied to the result of an attempt that returned.
RetryCondition(settings, batch) ==
    settings.retry = "retry_if_result" /\ should_retry_facebook_batch(batch)

\* retry_settings.retry applied to an attempt that raised: retry_if_result reads
\* results only, the decorator's default retry_if_exception_type retries.
RetryConditionOnException(settings) == settings.retry = "retry_if_exception_type"

\* Variant: stops one attempt too early.
StopConditionEarly(settings, attempt_number) ==
    settings.stop = "stop_after_attempt" /\ attempt_number + 1 >= settings.max_attempt_number

\* Variant: stops one attempt too late.
StopConditionLate(settings, attempt_number) ==
    settings.stop = "stop_after_attempt" /\ attempt_number > settings.max_attempt_number

\* retry_settings.stop applied after an attempt.
StopCondition(settings, attempt_number) ==
    settings.stop = "stop_after_attempt" /\ attempt_number >= settings.max_attempt_number

\* requirements.txt pins no tenacity release, and the releases differ in the
\* exponent of wait_exponential: exp_base ** attempt_number in the earlier
\* ones, exp_base ** (attempt_number - 1) in the later ones.
WaitExponents == {"attempt_number", "attempt_number - 1"}

\* Variant: the minimum is not applied.
WaitSecondsNoMin(settings, attempt_number, exponent) ==
    IF settings.wait = "wait_exponential"
    THEN Min(settings.multiplier *
                (2 ^ (IF exponent = "attempt_number"
                      THEN attempt_number ELSE attempt_number - 1)),
             settings.max)
    ELSE 0

\* retry_settings.wait applied after an attempt:
\* max(max(0, min), min(multiplier * 2 ** exponent, max)).
WaitSeconds(settings, attempt_number, exponent) ==
    IF settings.wait = "wait_exponential"
    THEN Max(Max(0, settings.min),
             Min(settings.multiplier *
                    (2 ^ (IF exponent = "attempt_number"
                          THEN attempt_number ELSE attempt_number - 1)),
                 settings.max))
    ELSE 0

\* Variant: the uploader has no except clause.
ExceptNothing(exception) == FALSE

\* Variant: `except Exception: pass`, every exception of a chunk is swallowed.
ExceptEveryException(exception) == TRUE

\* `except RetryError: pass` around batch.execute() in the uploader.
ExceptRetryError(exception) == exception = "RetryError"

\* Variant: the slice is one element too long, so chunks overlap.
ChunkOverlapping(reqs, from, size) ==
    SubSeq(reqs, from + 1, Min(from + size + 1, Len(reqs)))

\* self.requests[i : i + chunk_size]
Chunk(reqs, from, size) ==
    SubSeq(reqs, from + 1, Min(from + size, Len(reqs)))

\* Variant: only the last Batch's errors are looked at.
UploaderErrorsLastBatch(bs) ==
    IF bs = <<>> THEN <<>> ELSE bs[Len(bs)].errors

\* FacebookBatchUploader.errors: every Batch's errors, concatenated.
RECURSIVE UploaderErrors(_)
UploaderErrors(bs) ==
    IF bs = <<>> THEN <<>>
    ELSE UploaderErrors(SubSeq(bs, 1, Len(bs) - 1)) \o bs[Len(bs)].errors

\* Variant: the Batches' responses concatenated last chunk first.
RECURSIVE UploaderResponsesReversed(_)
UploaderResponsesReversed(bs) ==
    IF bs = <<>> THEN <<>>
    ELSE bs[Len(bs)].responses \o UploaderResponsesReversed(SubSeq(bs, 1, Len(bs) - 1))

\* FacebookBatchUploader.responses: every Batch's responses, concatenated.
RECURSIVE UploaderResponses(_)
UploaderResponses(bs) ==
    IF bs = <<>> THEN <<>>
    ELSE UploaderResponses(SubSeq(bs, 1, Len(bs) - 1)) \o bs[Len(bs)].responses

\* Variant: items as long as the longest of the three, padded with None.
ItemsPadded(reqs, resps, errs) ==
    [n \in 1..Max(Len(reqs), Max(Len(resps), Len(errs))) |->
        <<IF n <= Len(reqs) THEN reqs[n] ELSE None,
          IF n <= Len(resps) THEN resps[n] ELSE None,
          IF n <= Len(errs) THEN errs[n] ELSE None>>]

\* FacebookBatchUploader.items: zip(self.requests, self.responses, self.errors),
\* which stops at the shortest of the three.
Items(reqs, resps, errs) ==
    [n \in 1..Min(Len(reqs), Min(Len(resps), Len(errs))) |->
        <<reqs[n], resps[n], errs[n]>>]

\* any(errors)
AnyError(errors) == \E k \in 1..Len(errors) : errors[k] # None

\* The numbers of "{} requests failed out of {}".format(len(errors), num_requests, ...)
ExceptionMsg(errors, num_requests) ==
    [failed |-> Len(errors), total |-> num_requests]

\* ------------------------------------------------------------ inputs
RequestLists == { [k \in 1..n |-> k] : n \in 0..MaxRequests }
ChunkSizes == (0..MaxChunk) \cup {MAX_CHUNK_SIZE, MAX_CHUNK_SIZE + 1}
MaxAttemptsValues == (1..MaxAttemptsOverride) \cup {DEFAULT_MAX_ATTEMPTS}

\* The class attributes WAIT_EXPONENTIAL_* as the source sets them.
DefaultWaitSettings ==
    [multiplier |-> WAIT_EXPONENTIAL_MULTIPLIER,
     min |-> WAIT_EXPONENTIAL_MIN_IN_SECONDS,
     max |-> WAIT_EXPONENTIAL_MAX_IN_SECONDS]

\* Nothing called yet on the collaborator of a Batch of n requests: new_batch,
\* add_request per index and the handle's execute are call counts, begun counts
\* the calls of the Batch's own execute;
\* last_callback is what the handle last delivered per index; outcome,
\* idle_for, waits and retried_always record how the decorator's loop went.
NoCalls(n) ==
    [begun |-> 0,
     new_batch |-> 0, add_request |-> [k \in 1..n |-> 0], execute |-> 0,
     last_callback |-> [k \in 1..n |-> None],
     retried_always |-> TRUE, outcome |-> "None", idle_for |-> 0, waits |-> <<>>]

\* ------------------------------------------------------------ the machine
Init ==
    /\ requests \in RequestLists
    /\ MAX_ATTEMPTS \in MaxAttemptsValues
    /\ wait_settings = DefaultWaitSettings
    /\ wait_exponent \in WaitExponents
    /\ executions = 0
    /\ batches = <<>>
    /\ chunk_size = 0
    /\ i = 0
    /\ pc = "constructed"
    /\ raised = "None"
    /\ exception_msg = None
    /\ retry_settings = DefaultRetrying
    /\ statistics = [attempt_number |-> 0, idle_for |-> 0]
    /\ handle = <<>>
    /\ pending = <<>>
    /\ outcome = "None"
    /\ calls = <<>>
    /\ reads = 0

Cur == Len(batches)

\* Variant: a chunk size of zero passes the check.
InvalidChunkSizeAllowsZero(c) == c < 0 \/ c > MAX_CHUNK_SIZE

\* if chunk_size < 1 or chunk_size > 50
InvalidChunkSize(c) == c < 1 \/ c > MAX_CHUNK_SIZE

\* FacebookBatchUploader.execute(chunk_size): the check of chunk_size.
UploaderExecute(c) ==
    /\ pc = "constructed"
    /\ chunk_size' = c
    /\ IF InvalidChunkSize(c)
       THEN /\ pc' = "raised"
            /\ raised' = "InvalidValueError"
            /\ UNCHANGED i
       ELSE /\ pc' = "loop"
            /\ i' = 0
            /\ UNCHANGED raised
    /\ executions' = executions + 1
    /\ UNCHANGED <<requests, batches, exception_msg, MAX_ATTEMPTS, wait_settings,
                   wait_exponent, retry_settings, statistics, handle, pending, outcome,
                   calls, reads>>

\* Variant: the loop body runs once before the range is looked at, so an
\* empty request list is sliced too.
CreateBatchAtLeastOnce ==
    /\ pc = "loop"
    /\ i < Len(requests) \/ (i = 0 /\ batches = <<>>)
    /\ LET batch == FacebookBatch(Chunk(requests, i, chunk_size)) IN
       IF batch.raises # "None"
       THEN /\ pc' = "raised"
            /\ raised' = batch.raises
            /\ UNCHANGED <<batches, calls>>
       ELSE /\ batches' = Append(batches, [requests |-> batch.requests,
                                           responses |-> batch.responses,
                                           errors |-> batch.errors])
            /\ calls' = Append(calls, NoCalls(Len(batch.requests)))
            /\ pc' = "batch_execute"
            /\ UNCHANGED raised
    /\ UNCHANGED <<requests, executions, chunk_size, i, exception_msg, MAX_ATTEMPTS,
                   wait_settings, wait_exponent, retry_settings, statistics, handle,
                   pending, outcome, reads>>

\* One iteration of `for i in range(0, num_requests, chunk_size)`: the Batch is
\* constructed and appended.
CreateBatch ==
    /\ pc = "loop"
    /\ i < Len(requests)
    /\ LET batch == FacebookBatch(Chunk(requests, i, chunk_size)) IN
       IF batch.raises # "None"
       THEN /\ pc' = "raised"
            /\ raised' = batch.raises
            /\ UNCHANGED <<batches, calls>>
       ELSE /\ batches' = Append(batches, [requests |-> batch.requests,
                                           responses |-> batch.responses,
                                           errors |-> batch.errors])
            /\ calls' = Append(calls, NoCalls(Len(batch.requests)))
            /\ pc' = "batch_execute"
            /\ UNCHANGED raised
    /\ UNCHANGED <<requests, executions, chunk_size, i, exception_msg, MAX_ATTEMPTS,
                   wait_settings, wait_exponent, retry_settings, statistics, handle,
                   pending, outcome, reads>>

\* batch.execute() is called: the decorator begins its loop.
BatchExecute ==
    /\ pc = "batch_execute"
    /\ statistics' = [attempt_number |-> 1, idle_for |-> 0]
    /\ outcome' = "None"
    /\ pc' = "attempt"
    /\ calls' = [calls EXCEPT ![Cur].begun = @ + 1]
    /\ UNCHANGED <<requests, executions, batches, chunk_size, i, raised, exception_msg,
                   MAX_ATTEMPTS, wait_settings, wait_exponent, retry_settings, handle,
                   pending, reads>>

\* Variant: the retry settings are written once, by the first attempt ever made
\* through the decorated method, and kept from then on.
AttemptKeepsSettings ==
    /\ pc = "attempt"
    /\ retry_settings' =
          IF retry_settings = DefaultRetrying
          THEN InitializeExecutionRetrialConditions(MAX_ATTEMPTS, wait_settings)
          ELSE retry_settings
    /\ handle' = AddRequests(batches[Cur], 1)
    /\ pending' = handle'
    /\ calls' = [calls EXCEPT ![Cur] =
                   [@ EXCEPT !.new_batch = @ + 1,
                             !.execute = @ + 1,
                             !.add_request =
                                 [k \in DOMAIN @ |->
                                    IF \E p \in 1..Len(handle') : handle'[p] = k
                                    THEN @[k] + 1 ELSE @[k]]]]
    /\ pc' = "callbacks"
    /\ UNCHANGED <<requests, executions, batches, chunk_size, i, raised, exception_msg,
                   MAX_ATTEMPTS, wait_settings, wait_exponent, statistics, outcome,
                   reads>>

\* Variant: the handle is obtained in the first round only; later rounds add
\* their requests to it and run it again.
AttemptReusesHandle ==
    /\ pc = "attempt"
    /\ retry_settings' = InitializeExecutionRetrialConditions(MAX_ATTEMPTS, wait_settings)
    /\ handle' = IF statistics.attempt_number = 1
                 THEN AddRequests(batches[Cur], 1)
                 ELSE handle \o AddRequests(batches[Cur], 1)
    /\ pending' = handle'
    /\ calls' = [calls EXCEPT ![Cur] =
                   [@ EXCEPT !.new_batch = IF statistics.attempt_number = 1 THEN @ + 1 ELSE @,
                             !.execute = @ + 1,
                             !.add_request =
                                 [k \in DOMAIN @ |->
                                    IF \E p \in 1..Len(handle') : handle'[p] = k
                                    THEN @[k] + 1 ELSE @[k]]]]
    /\ pc' = "callbacks"
    /\ UNCHANGED <<requests, executions, batches, chunk_size, i, raised, exception_msg,
                   MAX_ATTEMPTS, wait_settings, wait_exponent, statistics, outcome,
                   reads>>

\* One attempt, up to the blocking call: the retry settings are re-initialised,
\* a fresh handle is obtained and the eligible requests are added to it.
Attempt ==
    /\ pc = "attempt"
    /\ retry_settings' = InitializeExecutionRetrialConditions(MAX_ATTEMPTS, wait_settings)
    /\ handle' = AddRequests(batches[Cur], 1)
    /\ pending' = handle'
    /\ calls' = [calls EXCEPT ![Cur] =
                   [@ EXCEPT !.new_batch = @ + 1,
                             !.execute = @ + 1,
                             !.add_request =
                                 [k \in DOMAIN @ |->
                                    IF \E p \in 1..Len(handle') : handle'[p] = k
                                    THEN @[k] + 1 ELSE @[k]]]]
    /\ pc' = "callbacks"
    /\ UNCHANGED <<requests, executions, batches, chunk_size, i, raised, exception_msg,
                   MAX_ATTEMPTS, wait_settings, wait_exponent, statistics, outcome,
                   reads>>

\* Variant: the success callback leaves the earlier error in place.
SuccessSlotKeepsError(batch, request_index, response) ==
    [batch EXCEPT
       !.responses[request_index] =
           FacebookBatchResponse(batch.requests[request_index], response)]

\* Variant: the success callback appends the response to the list.
SuccessSlotAppends(batch, request_index, response) ==
    [batch EXCEPT
       !.responses =
           Append(@, FacebookBatchResponse(batch.requests[request_index], response)),
       !.errors[request_index] = None]

\* FacebookBatch._default_success_callback
SuccessSlot(batch, request_index, response) ==
    [batch EXCEPT
       !.responses[request_index] =
           FacebookBatchResponse(batch.requests[request_index], response),
       !.errors[request_index] = None]

\* Variant: the failure callback starts from empty response slots.
FailureSlotClearsAllResponses(batch, request_index, request_error) ==
    [batch EXCEPT
       !.responses = [k \in DOMAIN @ |-> None],
       !.errors[request_index] =
           FacebookBatchRequestError(batch.requests[request_index], request_error)]

\* FacebookBatch._default_failure_callback
FailureSlot(batch, request_index, request_error) ==
    [batch EXCEPT
       !.responses[request_index] = None,
       !.errors[request_index] =
           FacebookBatchRequestError(batch.requests[request_index], request_error)]

\* The handle delivers the success callback of the next registered request.
SuccessCallback ==
    /\ pc = "callbacks"
    /\ pending # <<>>
    /\ LET k == Head(pending) IN
       /\ batches' = [batches EXCEPT ![Cur] =
                        SuccessSlot(@, k, [id |-> batches[Cur].requests[k]])]
       /\ calls' = [calls EXCEPT ![Cur].last_callback[k] =
                       [success |-> [id |-> batches[Cur].requests[k]]]]
    /\ pending' = Tail(pending)
    /\ UNCHANGED <<requests, executions, chunk_size, i, pc, raised, exception_msg,
                   MAX_ATTEMPTS, wait_settings, wait_exponent, retry_settings,
                   statistics, handle, outcome, reads>>

\* The handle delivers the failure callback of the next registered request.
FailureCallback(request_error) ==
    /\ pc = "callbacks"
    /\ pending # <<>>
    /\ LET k == Head(pending) IN
       /\ batches' = [batches EXCEPT ![Cur] = FailureSlot(@, k, request_error)]
       /\ calls' = [calls EXCEPT ![Cur].last_callback[k] = [failure |-> request_error]]
    /\ pending' = Tail(pending)
    /\ UNCHANGED <<requests, executions, chunk_size, i, pc, raised, exception_msg,
                   MAX_ATTEMPTS, wait_settings, wait_exponent, retry_settings,
                   statistics, handle, outcome, reads>>

\* The blocking call has returned and the attempt returns self: the decorator
\* decides between returning, raising RetryError and sleeping.
AfterAttempt ==
    /\ pc = "callbacks"
    /\ pending = <<>>
    /\ LET again == RetryCondition(retry_settings, batches[Cur])
           stop == StopCondition(retry_settings, statistics.attempt_number)
           sleep == WaitSeconds(retry_settings, statistics.attempt_number, wait_exponent)
           ended == IF ~again THEN "returned" ELSE IF stop THEN "RetryError" ELSE "None"
       IN
       /\ calls' = [calls EXCEPT ![Cur] =
                      [@ EXCEPT !.retried_always =
                                    @ /\ should_retry_facebook_batch(batches[Cur]),
                                !.outcome = ended,
                                !.idle_for = IF ended = "None"
                                             THEN statistics.idle_for + sleep
                                             ELSE statistics.idle_for,
                                !.waits = IF ended = "None"
                                          THEN Append(@, sleep) ELSE @]]
       /\ IF ended # "None"
          THEN /\ outcome' = ended
               /\ pc' = "batch_done"
               /\ UNCHANGED statistics
          ELSE /\ statistics' = [attempt_number |-> statistics.attempt_number + 1,
                                 idle_for |-> statistics.idle_for + sleep]
               /\ pc' = "sleep"
               /\ UNCHANGED outcome
    /\ UNCHANGED <<requests, executions, batches, chunk_size, i, raised, exception_msg,
                   MAX_ATTEMPTS, wait_settings, wait_exponent, retry_settings, handle,
                   pending, reads>>

\* Variant: the uploader does not wait for the Batch's retry loop and goes on
\* to the next chunk while the Batch is in its backoff wait.
SleepStartsNextChunk ==
    /\ pc = "sleep"
    /\ pc' = "loop"
    /\ i' = i + chunk_size
    /\ UNCHANGED <<requests, executions, batches, chunk_size, raised, exception_msg,
                   MAX_ATTEMPTS, wait_settings, wait_exponent, retry_settings,
                   statistics, handle, pending, outcome, calls, reads>>

\* The backoff wait is over: the next attempt starts.
Sleep ==
    /\ pc = "sleep"
    /\ pc' = "attempt"
    /\ UNCHANGED <<requests, executions, batches, chunk_size, i, raised, exception_msg,
                   MAX_ATTEMPTS, wait_settings, wait_exponent, retry_settings,
                   statistics, handle, pending, outcome, calls, reads>>

\* try: batch.execute() / except RetryError: pass, and the loop's step.
AfterBatchExecute ==
    /\ pc = "batch_done"
    /\ IF outcome = "returned" \/ ExceptRetryError(outcome)
       THEN /\ i' = i + chunk_size
            /\ pc' = "loop"
            /\ UNCHANGED raised
       ELSE /\ pc' = "raised"
            /\ raised' = outcome
            /\ UNCHANGED i
    /\ UNCHANGED <<requests, executions, batches, chunk_size, exception_msg,
                   MAX_ATTEMPTS, wait_settings, wait_exponent, retry_settings,
                   statistics, handle, pending, outcome, calls, reads>>

\* After the loop: errors = list(self.errors); raise BatchExecutionError or return.
RaiseOrReturn ==
    /\ pc = "loop"
    /\ i >= Len(requests)
    /\ LET errors == UploaderErrors(batches) IN
       IF AnyError(errors)
       THEN /\ exception_msg' = ExceptionMsg(errors, Len(requests))
            /\ raised' = "BatchExecutionError"
            /\ pc' = "raised"
       ELSE /\ pc' = "returned"
            /\ UNCHANGED <<raised, exception_msg>>
    /\ UNCHANGED <<requests, executions, batches, chunk_size, i, MAX_ATTEMPTS,
                   wait_settings, wait_exponent, retry_settings, statistics, handle,
                   pending, outcome, calls, reads>>

Next ==
    \/ \E c \in ChunkSizes : UploaderExecute(c)
    \/ CreateBatch
    \/ BatchExecute
    \/ Attempt
    \/ SuccessCallback
    \/ \E e \in RequestErrors : FailureCallback(e)
    \/ AfterAttempt
    \/ Sleep
    \/ AfterBatchExecute
    \/ RaiseOrReturn

Spec == Init /\ [][Next]_vars

\* The single thread of control keeps running: every call on the remote client
\* returns and every backoff wait ends, so a step that can be taken is taken.
\* Request lists one shorter than the longest keep the graph of behaviours
\* small enough to search for cycles.
InitFair == Init /\ Len(requests) < MaxRequests

FairSpec == InitFair /\ [][Next]_vars /\ WF_vars(Next)

\* ------------------------------------------- a remote client that may raise
\* A call on the remote client (new_batch, or the handle's blocking execute,
\* before or between callbacks) raises instead of returning.  The settings of
\* line 108 are in force by then, so the exception is not retried and leaves
\* FacebookBatch.execute as it is.
ClientRaises ==
    /\ pc \in {"attempt", "callbacks"}
    /\ retry_settings' = InitializeExecutionRetrialConditions(MAX_ATTEMPTS, wait_settings)
    /\ ~RetryConditionOnException(retry_settings')
    /\ outcome' = "FacebookRequestError"
    /\ calls' = [calls EXCEPT ![Cur].outcome = "FacebookRequestError"]
    /\ pc' = "batch_done"
    /\ UNCHANGED <<requests, executions, batches, chunk_size, i, raised, exception_msg,
                   MAX_ATTEMPTS, wait_settings, wait_exponent, statistics, handle,
                   pending, reads>>

NextClient == Next \/ ClientRaises

SpecClient == Init /\ [][NextClient]_vars

\* ------------------------------------------- an uploader executed again
\* execute(chunk_size) is called on an uploader whose earlier call has ended:
\* the same method body, on the _batches the earlier calls left.
ExecuteAgain(c) ==
    /\ pc \in {"raised", "returned"}
    /\ executions < MaxExecutions
    /\ executions' = executions + 1
    /\ chunk_size' = c
    /\ exception_msg' = None
    /\ IF InvalidChunkSize(c)
       THEN /\ pc' = "raised"
            /\ raised' = "InvalidValueError"
            /\ UNCHANGED i
       ELSE /\ pc' = "loop"
            /\ raised' = "None"
            /\ i' = 0
    /\ UNCHANGED <<requests, batches, MAX_ATTEMPTS, wait_settings, wait_exponent,
                   retry_settings, statistics, handle, pending, outcome, calls, reads>>

NextReexecute == Next \/ \E c \in ChunkSizes : ExecuteAgain(c)

\* Lists of at most two requests and at most two attempts per Batch keep the
\* histories of several calls countable.
InitReexecute == Init /\ Len(requests) <= 2 /\ MAX_ATTEMPTS <= 2

SpecReexecute == InitReexecute /\ [][NextReexecute]_vars

\* ------------------------------------------- tweaked wait settings
\* Values the class attributes WAIT_EXPONENTIAL_MULTIPLIER, _MIN_IN_SECONDS and
\* _MAX_IN_SECONDS are given: all zero as the test modules set them, the
\* defaults, a minimum above the first terms, a multiplier that passes the
\* maximum early.
WaitSettingsValues ==
    { [multiplier |-> 0, min |-> 0, max |-> 0],
      DefaultWaitSettings,
      [multiplier |-> 1, min |-> 3, max |-> 10],
      [multiplier |-> 3, min |-> 0, max |-> 10] }

\* An uploader of at most one request, under every one of these settings.
InitBackoff ==
    /\ requests \in { r \in RequestLists : Len(r) <= 1 }
    /\ MAX_ATTEMPTS \in MaxAttemptsValues
    /\ wait_settings \in WaitSettingsValues
    /\ wait_exponent \in WaitExponents
    /\ executions = 0
    /\ batches = <<>>
    /\ chunk_size = 0
    /\ i = 0
    /\ pc = "constructed"
    /\ raised = "None"
    /\ exception_msg = None
    /\ retry_settings = DefaultRetrying
    /\ statistics = [attempt_number |-> 0, idle_for |-> 0]
    /\ handle = <<>>
    /\ pending = <<>>
    /\ outcome = "None"
    /\ calls = <<>>
    /\ reads = 0

SpecBackoff == InitBackoff /\ [][Next]_vars

\* ------------------------------------------- FacebookBatch constructed alone
\* A caller constructs a FacebookBatch directly from a list of any length.
ConstructorInputs == { [k \in 1..n |-> k] : n \in 0..MaxConstructLen }

InitConstruct ==
    /\ requests \in ConstructorInputs
    /\ MAX_ATTEMPTS \in MaxAttemptsValues
    /\ wait_settings = DefaultWaitSettings
    /\ wait_exponent \in WaitExponents
    /\ executions = 0
    /\ batches = <<>>
    /\ chunk_size = 0
    /\ i = 0
    /\ pc = "construct"
    /\ raised = "None"
    /\ exception_msg = None
    /\ retry_settings = DefaultRetrying
    /\ statistics = [attempt_number |-> 0, idle_for |-> 0]
    /\ handle = <<>>
    /\ pending = <<>>
    /\ outcome = "None"
    /\ calls = <<>>
    /\ reads = 0

\* FacebookBatch(requests): the object, or the constructor's exception.
ConstructBatch ==
    /\ pc = "construct"
    /\ pc' = "batch_constructed"
    /\ LET batch == FacebookBatch(requests) IN
       IF batch.raises = "None"
       THEN /\ batches' = <<batch>>
            /\ calls' = <<NoCalls(Len(requests))>>
            /\ UNCHANGED raised
       ELSE /\ raised' = batch.raises
            /\ UNCHANGED <<batches, calls>>
    /\ UNCHANGED <<requests, executions, chunk_size, i, exception_msg, MAX_ATTEMPTS,
                   wait_settings, wait_exponent, retry_settings, statistics, handle,
                   pending, outcome, reads>>

SpecConstruct == InitConstruct /\ [][ConstructBatch]_vars

\* ------------------------------------------- FacebookBatch objects used directly
\* A caller constructs FacebookBatch objects one after the other, sets
\* MAX_ATTEMPTS and the wait settings on each as it likes, and calls execute on
\* each, possibly more than once.  All of them share the Retrying object of
\* the decorated method.
OwnSettings ==
    { [max_attempts |-> 1, wait |-> [multiplier |-> 0, min |-> 0, max |-> 0]],
      [max_attempts |-> 2, wait |-> DefaultWaitSettings],
      [max_attempts |-> 3, wait |-> [multiplier |-> 3, min |-> 0, max |-> 10]] }

InitBatch ==
    InitConstruct /\ Len(requests) \in 1..2 /\ MAX_ATTEMPTS = DEFAULT_MAX_ATTEMPTS

\* Another FacebookBatch(requests) after the earlier one was executed.
ConstructNextBatch ==
    /\ pc = "batch_ended"
    /\ Len(batches) < MaxDirectBatches
    /\ LET batch == FacebookBatch(requests) IN
       /\ batch.raises = "None"
       /\ batches' = Append(batches, batch)
       /\ calls' = Append(calls, NoCalls(Len(requests)))
    /\ pc' = "batch_constructed"
    /\ UNCHANGED <<requests, executions, chunk_size, i, raised, exception_msg,
                   MAX_ATTEMPTS, wait_settings, wait_exponent, retry_settings,
                   statistics, handle, pending, outcome, reads>>

\* batch.execute() on the Batch constructed last, whose attributes are own;
\* most is how often the caller executes one Batch.
DirectExecute(own, most) ==
    /\ pc \in {"batch_constructed", "batch_ended"}
    /\ raised = "None"
    /\ calls[Cur].begun < most
    /\ MAX_ATTEMPTS' = own.max_attempts
    /\ wait_settings' = own.wait
    /\ statistics' = [attempt_number |-> 1, idle_for |-> 0]
    /\ outcome' = "None"
    /\ pc' = "attempt"
    /\ calls' = [calls EXCEPT ![Cur].begun = @ + 1]
    /\ UNCHANGED <<requests, executions, batches, chunk_size, i, raised, exception_msg,
                   wait_exponent, retry_settings, handle, pending, reads>>

\* batch.execute() has returned self or raised RetryError to the caller.
DirectExecuteEnds ==
    /\ pc = "batch_done"
    /\ pc' = "batch_ended"
    /\ UNCHANGED <<requests, executions, batches, chunk_size, i, raised, exception_msg,
                   MAX_ATTEMPTS, wait_settings, wait_exponent, retry_settings,
                   statistics, handle, pending, outcome, calls, reads>>

\* One attempt of the running execute call, from the fresh handle to the
\* decorator's decision and wait.
Round ==
    \/ Attempt
    \/ SuccessCallback
    \/ \E e \in RequestErrors : FailureCallback(e)
    \/ AfterAttempt
    \/ Sleep

\* One Batch, executed again and again.
NextBatch ==
    \/ ConstructBatch
    \/ \E own \in OwnSettings : DirectExecute(own, MaxBatchExecutions)
    \/ Round
    \/ DirectExecuteEnds

SpecBatch == InitBatch /\ [][NextBatch]_vars

\* Several Batches, each executed once when the one before it has ended.
NextBatches ==
    \/ ConstructBatch
    \/ ConstructNextBatch
    \/ \E own \in OwnSettings : DirectExecute(own, 1)
    \/ Round
    \/ DirectExecuteEnds

InitBatches == InitBatch /\ Len(requests) = 1

SpecBatches == InitBatches /\ [][NextBatches]_vars

\* ------------------------------------------------------------ vocabulary
\* What a slot of a Batch holds.
HasResponse(batch, k) == batch.responses[k] # None
HasError(batch, k) == batch.errors[k] # None
Unsettled(batch, k) == batch.responses[k] = None /\ batch.errors[k] = None
TransientError(batch, k) == batch.errors[k] # None /\ batch.errors[k].is_transient
PermanentError(batch, k) == batch.errors[k] # None /\ ~batch.errors[k].is_transient
AnyTransientError(batch) == \E k \in 1..Len(batch.requests) : TransientError(batch, k)

Indices(b) == 1..Len(batches[b].requests)
InHandle(h, k) == \E p \in 1..Len(h) : h[p] = k
\* Rounds performed by Batch b: the handles obtained from the client factory.
Rounds(b) == calls[b].new_batch
Finished(b) == calls[b].outcome # "None"
UploaderEnded == pc \in {"raised", "returned"}
CeilDiv(n, c) == (n + c - 1) \div c

\* C1: in every round a request is added to the handle iff its slot is
\* unsettled or holds a transient error, and a slot that holds a response or a
\* non-transient error never gets another add_request call.
C1_RegistersExactlyEligible ==
    [][ /\ (pc = "attempt" /\ pc' = "callbacks") =>
              \A k \in Indices(Cur) :
                 /\ InHandle(handle', k) <=>
                       (Unsettled(batches[Cur], k) \/ TransientError(batches[Cur], k))
                 /\ calls'[Cur].add_request[k] =
                       calls[Cur].add_request[k] + (IF InHandle(handle', k) THEN 1 ELSE 0)
        /\ \A b \in 1..Len(batches) : \A k \in Indices(b) :
              (HasResponse(batches[b], k) \/ PermanentError(batches[b], k)) =>
                  calls'[b].add_request[k] = calls[b].add_request[k]
      ]_vars

\* C1 witness: a second or later round that leaves out a slot holding a response
\* and a slot holding a non-transient error, and resubmits a transient one.
C1_Witness ==
    /\ pc = "callbacks"
    /\ Rounds(Cur) >= 2
    /\ pending = handle
    /\ handle # <<>>
    /\ \E k \in Indices(Cur) : HasResponse(batches[Cur], k) /\ ~InHandle(handle, k)
    /\ \E k \in Indices(Cur) : PermanentError(batches[Cur], k) /\ ~InHandle(handle, k)
    /\ \E k \in Indices(Cur) : TransientError(batches[Cur], k) /\ InHandle(handle, k)

C3_RetryErrorIffExhausted ==
    \A b \in 1..Len(batches) :
        Finished(b) =>
            /\ calls[b].outcome \in {"returned", "RetryError"}
            /\ (calls[b].outcome = "RetryError") <=>
                  (Rounds(b) = MAX_ATTEMPTS /\ AnyTransientError(batches[b]))

\* C3 witness: one execute ended with RetryError beside a non-transient error,
\* and one returned normally although a slot holds a non-transient error.
C3_Witness ==
    /\ \E b \in 1..Len(batches) :
          /\ calls[b].outcome = "RetryError"
          /\ \E k \in Indices(b) : PermanentError(batches[b], k)
    /\ \E b \in 1..Len(batches) :
          /\ calls[b].outcome = "returned"
          /\ \E k \in Indices(b) : PermanentError(batches[b], k)

\* C4: no slot ever holds a response and an error; once execute has ended every
\* slot holds a response or an error, and a transient error only after RetryError.
C4_ExactlyOneOutcomePerSlot ==
    \A b \in 1..Len(batches) : \A k \in Indices(b) :
        /\ ~(HasResponse(batches[b], k) /\ HasError(batches[b], k))
        /\ Finished(b) =>
              /\ HasResponse(batches[b], k) \/ HasError(batches[b], k)
              /\ TransientError(batches[b], k) => calls[b].outcome = "RetryError"

\* C4 witness: an exhausted batch with a transient error left, beside a slot
\* whose response came on a retry, after an error.
C4_Witness ==
    \E b \in 1..Len(batches) :
        /\ calls[b].outcome = "RetryError"
        /\ \E k \in Indices(b) : TransientError(batches[b], k)
        /\ \E k \in Indices(b) :
              HasResponse(batches[b], k) /\ calls[b].add_request[k] >= 2

\* C5: when the retry predicate was true after every round, execute performs
\* exactly MAX_ATTEMPTS rounds and ends with RetryError.
C5_AlwaysRetryExhaustsBudget ==
    \A b \in 1..Len(batches) :
        /\ Rounds(b) <= MAX_ATTEMPTS
        /\ (Finished(b) /\ calls[b].retried_always) =>
              (Rounds(b) = MAX_ATTEMPTS /\ calls[b].outcome = "RetryError")
        /\ (~Finished(b) /\ calls[b].retried_always /\ Rounds(b) = MAX_ATTEMPTS) =>
              (b = Cur /\ pc = "callbacks")

\* C5 witness: the default budget of five rounds was used up.
C5_Witness ==
    \E b \in 1..Len(batches) :
        /\ Finished(b)
        /\ calls[b].retried_always
        /\ MAX_ATTEMPTS = DEFAULT_MAX_ATTEMPTS
        /\ Rounds(b) = DEFAULT_MAX_ATTEMPTS

\* C6: when no slot holds a transient error after the first round, execute
\* returns at once: one round, no backoff, whatever MAX_ATTEMPTS is; and a
\* Batch whose execute has ended sees no further call.
C6_NoTransientMeansOneRound ==
    [][ /\ (/\ pc = "callbacks"
            /\ pending = <<>>
            /\ Rounds(Cur) = 1
            /\ ~AnyTransientError(batches[Cur])) =>
              /\ pc' = "batch_done"
              /\ outcome' = "returned"
              /\ calls'[Cur].outcome = "returned"
              /\ Rounds(Cur)' = 1
              /\ statistics'.idle_for = 0
              /\ calls'[Cur].idle_for = 0
        /\ \A b \in 1..Len(batches) :
              Finished(b) => (calls'[b] = calls[b] /\ batches'[b] = batches[b])
      ]_vars

\* C6 witness: one round sufficed, with a response and a non-transient error,
\* although the budget allowed more.
C6_Witness ==
    /\ pc = "batch_done"
    /\ Rounds(Cur) = 1
    /\ MAX_ATTEMPTS >= 2
    /\ calls[Cur].idle_for = 0
    /\ \E k \in Indices(Cur) : HasResponse(batches[Cur], k)
    /\ \E k \in Indices(Cur) : PermanentError(batches[Cur], k)

\* C7: a RetryError of a Batch never leaves the uploader: the Batch stays, with
\* its errors, and the Batches of all later chunks are created and executed.
C7_RetryErrorSwallowed ==
    /\ raised # "RetryError"
    /\ \A b \in 1..Len(batches) :
          calls[b].outcome = "RetryError" =>
              /\ AnyTransientError(batches[b])
              /\ (b = Cur) =>
                    \/ pc = "batch_done"
                    \/ pc = "loop" /\ i = b * chunk_size
                    \/ UploaderEnded /\ i >= Len(requests)
              /\ UploaderEnded =>
                    /\ Len(batches) = CeilDiv(Len(requests), chunk_size)
                    /\ \A later \in (b + 1)..Len(batches) :
                          Rounds(later) >= 1 /\ Finished(later)

\* C7 witness: the first Batch was exhausted, holding a non-transient and a
\* transient error, and the Batch of the next chunk was executed after it.
C7_Witness ==
    /\ UploaderEnded
    /\ Len(batches) >= 2
    /\ calls[1].outcome = "RetryError"
    /\ \E k \in Indices(1) : PermanentError(batches[1], k)
    /\ \E k \in Indices(1) : TransientError(batches[1], k)
    /\ Rounds(2) >= 1

\* C8: after all chunks, the uploader raises BatchExecutionError iff some slot
\* of some Batch holds an error, and returns normally otherwise.
C8_BatchExecutionErrorIffAnyError ==
    (UploaderEnded /\ raised # "InvalidValueError") =>
        LET failed == \E b \in 1..Len(batches) : \E k \in Indices(b) :
                          HasError(batches[b], k)
        IN /\ (pc = "raised" /\ raised = "BatchExecutionError") <=> failed
           /\ (pc = "returned" /\ raised = "None") <=> ~failed

\* C8 witness: raised although the only error is a non-transient one in the
\* first of two Batches.
C8_Witness ==
    /\ raised = "BatchExecutionError"
    /\ Len(batches) = 2
    /\ \E k \in Indices(1) : PermanentError(batches[1], k)
    /\ \A k \in Indices(1) : ~TransientError(batches[1], k)
    /\ \A k \in Indices(2) : HasResponse(batches[2], k)

\* C9: the message of BatchExecutionError gives the number of requests whose
\* slot holds an error, out of the number of requests.
C9_MessageCountsFailedRequests ==
    raised = "BatchExecutionError" =>
        /\ exception_msg.failed =
              Cardinality({ <<b, k>> \in (1..Len(batches)) \X (1..MAX_REQUESTS_PER_BATCH) :
                               k \in Indices(b) /\ HasError(batches[b], k) })
        /\ exception_msg.total = Len(requests)

\* C10: ceil(N / chunk_size) Batches are created, in order, and Batch b holds
\* the requests at positions (b-1)*chunk_size+1 .. min(b*chunk_size, N).
C10_ConsecutiveChunks ==
    (pc \notin {"constructed"} /\ raised # "InvalidValueError") =>
        /\ Len(batches) <= CeilDiv(Len(requests), chunk_size)
        /\ \A b \in 1..Len(batches) :
              /\ Len(batches[b].requests) =
                    Min(b * chunk_size, Len(requests)) - (b - 1) * chunk_size
              /\ Len(batches[b].requests) >= 1
              /\ \A k \in Indices(b) :
                    batches[b].requests[k] = requests[(b - 1) * chunk_size + k]
        /\ UploaderEnded =>
              /\ raised \in {"None", "BatchExecutionError"}
              /\ Len(batches) = CeilDiv(Len(requests), chunk_size)

\* C10 witness: three requests in chunks of two: a full chunk and a shorter one.
C10_Witness ==
    /\ UploaderEnded
    /\ Len(requests) = 3
    /\ chunk_size = 2
    /\ Len(batches) = 2
    /\ batches[1].requests = <<1, 2>>
    /\ batches[2].requests = <<3>>

\* The uploader's execute got past the check of chunk_size and ran to its end.
UploaderRan == UploaderEnded /\ raised # "InvalidValueError"
\* The Batch and the index in it that hold request n of the uploader.
BatchOf(n) == ((n - 1) \div chunk_size) + 1
IndexOf(n) == ((n - 1) % chunk_size) + 1

\* C11: after the uploader's execute has run, responses, errors and items have
\* as many elements as requests, in request order: element n of responses and
\* errors is the slot of request n (the Batches' slot arrays concatenated in
\* chunk order) and items yields (request n, response n, error n).
C11_AccessorsFollowRequestOrder ==
    UploaderRan =>
        LET resps == UploaderResponses(batches)
            errs == UploaderErrors(batches)
            its == Items(requests, resps, errs)
        IN /\ Len(resps) = Len(requests)
           /\ Len(errs) = Len(requests)
           /\ Len(its) = Len(requests)
           /\ \A n \in 1..Len(requests) :
                 /\ batches[BatchOf(n)].requests[IndexOf(n)] = requests[n]
                 /\ resps[n] = batches[BatchOf(n)].responses[IndexOf(n)]
                 /\ errs[n] = batches[BatchOf(n)].errors[IndexOf(n)]
                 /\ resps[n] # None => resps[n].request = requests[n]
                 /\ errs[n] # None => errs[n].request = requests[n]
                 /\ its[n] = <<requests[n], resps[n], errs[n]>>

\* Three requests in two chunks, the first succeeded and the last failed.
C11_Witness ==
    /\ UploaderRan
    /\ Len(requests) = 3
    /\ Len(batches) = 2
    /\ UploaderResponses(batches)[1] # None
    /\ UploaderErrors(batches)[3] # None
    /\ Items(requests, UploaderResponses(batches), UploaderErrors(batches))[2][1] = 2

\* The errors recorded in the slots of the Batches.
ServerErrorClass(status) == status \in 500..599

\* C12 as stated: a recorded RequestError is transient exactly when the
\* platform's flag is set or the HTTP status is any 5xx status.
C12_TransientIffFlagOrAny5xx ==
    \A b \in 1..Len(batches) : \A k \in Indices(b) :
        HasError(batches[b], k) =>
            (batches[b].errors[k].is_transient <=>
                (batches[b].errors[k].request_error.api_transient_error
                 \/ ServerErrorClass(batches[b].errors[k].request_error.http_status)))

\* C12 (amended): a recorded RequestError is transient exactly when the
\* platform's flag is set or the HTTP status equals 500; a failure with any
\* other status, 5xx included, is transient only by the platform's flag.
C12_TransientIffFlagOrStatus500 ==
    \A b \in 1..Len(batches) : \A k \in Indices(b) :
        HasError(batches[b], k) =>
            LET error == batches[b].errors[k] IN
            /\ error.is_transient <=>
                  (error.request_error.api_transient_error
                   \/ error.request_error.http_status = 500)
            /\ (error.request_error.http_status # 500) =>
                  (error.is_transient <=> error.request_error.api_transient_error)

\* One Batch holds a 500 without the flag, recorded transient, next to a 503
\* without the flag, recorded non-transient.
C12_Witness ==
    \E b \in 1..Len(batches) : \E k, j \in Indices(b) :
        /\ HasError(batches[b], k) /\ HasError(batches[b], j)
        /\ batches[b].errors[k].request_error =
              [api_transient_error |-> FALSE, http_status |-> 500]
        /\ batches[b].errors[k].is_transient
        /\ batches[b].errors[j].request_error =
              [api_transient_error |-> FALSE, http_status |-> 503]
        /\ ~batches[b].errors[j].is_transient

\* C13: constructing a FacebookBatch succeeds for every request list of length
\* 1..50 and leaves every slot unsettled, with responses and errors as long as
\* the input; it fails with NoFacebookRequestProvidedError for length 0 and
\* with TooManyRequestsPerBatchError for every length above 50.
C13_ConstructorAccepts1To50 ==
    pc = "batch_constructed" =>
        /\ Len(requests) \in 1..50 =>
              /\ raised = "None"
              /\ Len(batches) = 1
              /\ batches[1].requests = requests
              /\ Len(batches[1].responses) = Len(requests)
              /\ Len(batches[1].errors) = Len(requests)
              /\ \A k \in 1..Len(requests) : Unsettled(batches[1], k)
        /\ Len(requests) = 0 =>
              raised = "NoFacebookRequestProvidedError" /\ batches = <<>>
        /\ Len(requests) > 50 =>
              raised = "TooManyRequestsPerBatchError" /\ batches = <<>>

\* A list of exactly 50 requests was accepted.
C13_Witness ==
    /\ pc = "batch_constructed"
    /\ Len(requests) = 50
    /\ raised = "None"
    /\ Len(batches) = 1 /\ Len(batches[1].responses) = 50

\* C14: the uploader's execute raises InvalidValueError exactly when
\* chunk_size < 1 or chunk_size > 50, and then it has created no Batch,
\* submitted no request and left the uploader's state as it was.
C14_InvalidChunkSizeRejected ==
    [][ /\ (pc = "constructed" /\ pc' # "constructed") =>
              /\ raised' = "InvalidValueError" <=> (chunk_size' < 1 \/ chunk_size' > 50)
              /\ raised' = "InvalidValueError" =>
                    /\ pc' = "raised"
                    /\ requests' = requests
                    /\ batches' = batches /\ batches' = <<>>
                    /\ calls' = <<>> /\ handle' = <<>> /\ pending' = <<>>
        /\ pc # "constructed" => (raised' = "InvalidValueError" <=> raised = "InvalidValueError")
        /\ raised = "InvalidValueError" => UNCHANGED <<requests, executions, batches, calls, handle>>
      ]_vars

\* execute(chunk_size=51) on an uploader of three requests was refused.
C14_Witness ==
    /\ raised = "InvalidValueError"
    /\ chunk_size = 51
    /\ Len(requests) = 3
    /\ batches = <<>>

\* The remote client raised while Batch b was executed.
ClientRaisedIn(b) == calls[b].outcome = "FacebookRequestError"
\* A Batch exists for every chunk and each one's execute has ended.
AllChunksAttempted ==
    /\ Len(batches) = CeilDiv(Len(requests), chunk_size)
    /\ \A b \in 1..Len(batches) : Finished(b)

\* C15 as stated: for a valid chunk_size, whatever happens while a chunk is
\* executed, a Batch is created and executed for every chunk and the only
\* error surfaced is the aggregate BatchExecutionError after the last chunk.
C15_EveryChunkAttemptedWhateverHappens ==
    UploaderRan =>
        /\ AllChunksAttempted
        /\ raised \in {"None", "BatchExecutionError"}

\* C15 (amended): for a valid chunk_size, as long as the remote client raises
\* no exception of its own, request failures and retry exhaustion of a chunk
\* never abort sibling chunks: a Batch is created and executed for every chunk
\* and the only error surfaced is the aggregate BatchExecutionError after the
\* last chunk.  An exception raised by the remote client is not caught: it is
\* surfaced as it is and no later chunk is created.
C15_ChunksSurviveFailuresAndExhaustion ==
    UploaderRan =>
        IF \A b \in 1..Len(batches) : ~ClientRaisedIn(b)
        THEN /\ AllChunksAttempted
             /\ \A b \in 1..Len(batches) :
                   Rounds(b) >= 1 /\ calls[b].outcome \in {"returned", "RetryError"}
             /\ raised \in {"None", "BatchExecutionError"}
        ELSE /\ raised = "FacebookRequestError"
             /\ ClientRaisedIn(Len(batches))
             /\ \A b \in 1..(Len(batches) - 1) : ~ClientRaisedIn(b)

\* The first chunk exhausted its retries, the second was still executed and
\* recorded an error, and the aggregate error was raised.
C15_Witness ==
    /\ UploaderRan
    /\ Len(batches) = 2
    /\ calls[1].outcome = "RetryError"
    /\ calls[2].outcome = "returned"
    /\ HasError(batches[2], 1)
    /\ raised = "BatchExecutionError"

\* C16: chunks are processed strictly one after the other: the Batch of chunk
\* b+1 is not even constructed, and none of its rounds starts, before the
\* retry loop of the Batch of chunk b has ended, by return or by RetryError;
\* and once a later Batch exists nothing happens to an earlier one.
C16_ChunksStrictlySequential ==
    [][ /\ Len(batches') > Len(batches) =>
              \A b \in 1..Len(batches) :
                  calls[b].outcome \in {"returned", "RetryError"}
        /\ \A b \in 1..Len(batches) :
              (calls'[b] # calls[b] \/ batches'[b] # batches[b]) =>
                  /\ b = Len(batches)
                  /\ \A a \in 1..(b - 1) : calls[a].outcome \in {"returned", "RetryError"}
      ]_vars

\* The second chunk's Batch is in a round after the first chunk's Batch used
\* up all its attempts.
C16_Witness ==
    /\ Len(batches) = 2
    /\ pc = "callbacks"
    /\ calls[1].outcome = "RetryError"
    /\ Rounds(1) = MAX_ATTEMPTS /\ MAX_ATTEMPTS > 1
    /\ Rounds(2) >= 1
    /\ ~Finished(2)

\* clamp(x, lo, hi)
Clamp(x, lo, hi) == Max(lo, Min(x, hi))
\* The waits made so far for Batch b are one per finished or running round
\* but the first; while the Batch waits, or is about to start a round, the
\* wait before that round is already made.
OneWaitBetweenRounds(b) ==
    /\ Len(calls[b].waits) =
          IF b = Cur /\ pc \in {"batch_execute", "attempt", "sleep"}
          THEN Rounds(b)
          ELSE Rounds(b) - 1
    /\ Len(calls[b].waits) < MAX_ATTEMPTS

RECURSIVE RoundsUpTo(_)
RoundsUpTo(b) == IF b = 0 THEN 0 ELSE RoundsUpTo(b - 1) + Rounds(b)

\* C18: provided every blocking call on the remote client returns,
\* FacebookBatch.execute always ends, by return or RetryError, after at most
\* MAX_ATTEMPTS rounds, and the uploader's execute with a valid chunk_size
\* always ends, by return or BatchExecutionError, after at most
\* ceil(N / chunk_size) * MAX_ATTEMPTS rounds.
C18_TerminatesWithinBudget ==
    /\ [](pc = "batch_execute" => <>(pc = "batch_done"))
    /\ [](pc = "batch_done" => outcome \in {"returned", "RetryError"})
    /\ [](\A b \in 1..Len(batches) : Rounds(b) <= MAX_ATTEMPTS)
    /\ <>UploaderEnded
    /\ [](UploaderRan =>
            /\ raised \in {"None", "BatchExecutionError"}
            /\ \A b \in 1..Len(batches) : Finished(b)
            /\ RoundsUpTo(Len(batches)) <=
                  CeilDiv(Len(requests), chunk_size) * MAX_ATTEMPTS)

\* Both chunks of two requests used up their attempts: the uploader ended
\* with exactly ceil(2 / 1) * MAX_ATTEMPTS rounds made.
C18_Witness ==
    /\ UploaderRan
    /\ Len(requests) = 2 /\ chunk_size = 1
    /\ MAX_ATTEMPTS >= 2
    /\ calls[1].outcome = "RetryError" /\ calls[2].outcome = "RetryError"
    /\ RoundsUpTo(Len(batches)) = CeilDiv(Len(requests), chunk_size) * MAX_ATTEMPTS
    /\ raised = "BatchExecutionError"

\* A step in which the handle delivers a callback, and what it delivers.
CallbackStep == pc = "callbacks" /\ pending # <<>> /\ pending' = Tail(pending)
IsSuccess(callback) == "success" \in DOMAIN callback
IsFailure(callback) == "failure" \in DOMAIN callback

\* C19: a success callback for index k sets slot k to Succeeded (response
\* set, error cleared) and a failure callback for index k sets slot k to
\* Failed (freshly classified error set, response cleared); either way the
\* slots of every other index, the request list and the other Batches stay
\* as they were.
C19_CallbackTouchesOnlyItsSlot ==
    [][ CallbackStep =>
          LET k == Head(pending)
              delivered == calls'[Cur].last_callback[k]
              before == batches[Cur]
              after == batches'[Cur]
          IN /\ IsSuccess(delivered) =>
                   /\ after.responses[k] # None
                   /\ after.responses[k].request = before.requests[k]
                   /\ after.responses[k].data = delivered.success
                   /\ after.errors[k] = None
             /\ IsFailure(delivered) =>
                   /\ after.errors[k] # None
                   /\ after.errors[k].request = before.requests[k]
                   /\ after.errors[k].request_error = delivered.failure
                   /\ after.errors[k].is_transient =
                         (delivered.failure.api_transient_error
                          \/ delivered.failure.http_status = 500)
                   /\ after.responses[k] = None
             /\ IsSuccess(delivered) \/ IsFailure(delivered)
             /\ \A j \in Indices(Cur) \ {k} :
                   /\ after.responses[j] = before.responses[j]
                   /\ after.errors[j] = before.errors[j]
             /\ after.requests = before.requests
             /\ requests' = requests
             /\ Len(batches') = Len(batches)
             /\ \A b \in 1..(Len(batches) - 1) : batches'[b] = batches[b]
      ]_vars

\* In a Batch of two, request 1 holds a response and request 2, which held a
\* transient error, has just been answered with a failure again.
C19_Witness ==
    /\ pc = "callbacks"
    /\ Len(batches[Cur].requests) = 2
    /\ Rounds(Cur) = 2
    /\ pending = <<>>
    /\ HasResponse(batches[Cur], 1)
    /\ HasError(batches[Cur], 2)
    /\ IsFailure(calls[Cur].last_callback[2])
    /\ IsSuccess(calls[Cur].last_callback[1])

\* Slot k of Batch b holds what the callback last delivered for request k left.
SlotReflects(b, k) ==
    LET latest == calls[b].last_callback[k] IN
    IF IsSuccess(latest)
    THEN /\ HasResponse(batches[b], k)
         /\ batches[b].responses[k].data = latest.success
         /\ batches[b].errors[k] = None
    ELSE IF IsFailure(latest)
    THEN /\ HasError(batches[b], k)
         /\ batches[b].errors[k].request_error = latest.failure
         /\ batches[b].responses[k] = None
    ELSE Unsettled(batches[b], k)

\* C20: in every reachable state of a FacebookBatch (after construction, after
\* any callback, between rounds, after execute) responses and errors are as
\* long as the request list, and slot k holds the outcome of the most recent
\* callback delivered for request k (nothing when none was delivered).
C20_SlotsAlignedAndLatest ==
    \A b \in 1..Len(batches) :
        /\ Len(batches[b].responses) = Len(batches[b].requests)
        /\ Len(batches[b].errors) = Len(batches[b].requests)
        /\ \A k \in Indices(b) : SlotReflects(b, k)

\* Between rounds 2 and 3 of a Batch of three: request 1 succeeded in round
\* 1, request 2 failed in round 1 and succeeded in round 2, request 3 failed
\* in both with a transient error.
C20_Witness ==
    /\ pc = "sleep"
    /\ Len(batches[Cur].requests) = 3
    /\ Rounds(Cur) = 2
    /\ calls[Cur].add_request = <<1, 2, 2>>
    /\ IsSuccess(calls[Cur].last_callback[1])
    /\ IsSuccess(calls[Cur].last_callback[2])
    /\ IsFailure(calls[Cur].last_callback[3])
    /\ HasResponse(batches[Cur], 2) /\ ~HasError(batches[Cur], 2)
    /\ TransientError(batches[Cur], 3)

\* C21: after any number of execute calls with valid chunk sizes the uploader
\* holds exactly one Batch per chunk of its request list, so responses and
\* errors have exactly len(requests) elements and element n belongs to
\* request n.
C21_OneBatchPerChunkAfterAnyCalls ==
    UploaderRan =>
        /\ Len(batches) = CeilDiv(Len(requests), chunk_size)
        /\ Len(UploaderResponses(batches)) = Len(requests)
        /\ Len(UploaderErrors(batches)) = Len(requests)
        /\ \A n \in 1..Len(requests) :
              batches[BatchOf(n)].requests[IndexOf(n)] = requests[n]

\* A step in which the decorator decides after an attempt.
DecisionStep == pc = "callbacks" /\ pc' \in {"sleep", "batch_done"}

\* C22: no shared mutable state crosses Batch instances: executing one
\* FacebookBatch never changes the slots of another, and the rounds and the
\* backoff a Batch gets follow its own MAX_ATTEMPTS and wait settings, also
\* when a Batch with other settings was executed before it through the same
\* decorator.
C22_NoStateCrossesBatches ==
    [][ /\ \A b \in 1..Len(batches) :
              b # Len(batches') => batches'[b] = batches[b]
        /\ DecisionStep =>
              LET k == statistics.attempt_number
                  again == should_retry_facebook_batch(batches[Cur])
              IN /\ k <= MAX_ATTEMPTS
                 /\ pc' = "sleep" <=> (again /\ k < MAX_ATTEMPTS)
                 /\ outcome' = "RetryError" <=> (again /\ k = MAX_ATTEMPTS)
                 /\ outcome' = "returned" <=> ~again
                 /\ pc' = "sleep" =>
                       statistics'.idle_for - statistics.idle_for =
                          Clamp(wait_settings.multiplier *
                                   2 ^ (IF wait_exponent = "attempt_number"
                                        THEN k ELSE k - 1),
                                wait_settings.min, wait_settings.max)
      ]_vars

\* The first Batch used up three attempts of its own; the second, allowed a
\* single attempt, ended with RetryError after one round and no wait.
C22_Witness ==
    /\ pc = "batch_ended"
    /\ Len(batches) = 2
    /\ calls[1].outcome = "RetryError" /\ Rounds(1) = 3
    /\ MAX_ATTEMPTS = 1
    /\ calls[2].outcome = "RetryError" /\ Rounds(2) = 1
    /\ calls[2].waits = <<>>

\* ------------------------------------------------- reading the accessors
\* What the accessors return: the uploader's requests list, the generators
\* responses, errors and items drained into sequences, and each Batch's three
\* lists.
AccessorValues ==
    [requests |-> requests,
     responses |-> UploaderResponses(batches),
     errors |-> UploaderErrors(batches),
     items |-> Items(requests, UploaderResponses(batches), UploaderErrors(batches)),
     of_batches |-> [b \in 1..Len(batches) |->
                       <<batches[b].requests, batches[b].responses, batches[b].errors>>]]

\* Everything but the count of reads.
ProgramState ==
    <<requests, executions, batches, chunk_size, i, pc, raised, exception_msg,
      MAX_ATTEMPTS, wait_settings, wait_exponent, retry_settings, statistics, handle,
      pending, outcome, calls>>

\* Variant: the response generator hands each response out once, leaving None
\* in the slot it came from.
ReadAccessorsConsuming ==
    /\ pc \in {"constructed", "raised", "returned"}
    /\ reads < MaxReads
    /\ reads' = reads + 1
    /\ batches' = [b \in 1..Len(batches) |->
                     [batches[b] EXCEPT
                        !.responses = [n \in 1..Len(batches[b].responses) |-> None]]]
    /\ UNCHANGED <<requests, executions, chunk_size, i, pc, raised, exception_msg,
                   MAX_ATTEMPTS, wait_settings, wait_exponent, retry_settings,
                   statistics, handle, pending, outcome, calls>>

\* The caller reads every accessor, between calls of execute: the properties
\* return the lists, the generators iterate over them; nothing is assigned.
ReadAccessors ==
    /\ pc \in {"constructed", "raised", "returned"}
    /\ reads < MaxReads
    /\ reads' = reads + 1
    /\ UNCHANGED ProgramState

NextRead == Next \/ ReadAccessors
InitRead == Init /\ Len(requests) <= 2
SpecRead == InitRead /\ [][NextRead]_vars

C24_EmptyBeforeExecute ==
    executions = 0 =>
        /\ AccessorValues.responses = <<>>
        /\ AccessorValues.errors = <<>>
        /\ AccessorValues.items = <<>>
        /\ AccessorValues.of_batches = <<>>
        /\ AccessorValues.requests = requests
        /\ requests \in RequestLists

\* The accessors of an uploader of two requests were read before any execute.
C24_Witness ==
    /\ executions = 0
    /\ reads > 0
    /\ Len(requests) = 2

\* A step that begins a round: handle obtained, requests added, handle run.
RoundStep == pc = "attempt" /\ pc' = "callbacks"

\* C25: every round of FacebookBatch.execute obtains exactly one fresh handle
\* from the client factory, registers that round's requests on it and nothing
\* else, and runs it exactly once; no handle of an earlier round is reused, so
\* the new_batch calls, the runs of a handle and the rounds are equally many.
C25_OneFreshHandlePerRound ==
    [][ RoundStep =>
           LET before == calls[Cur]
               after == calls'[Cur]
               registered == {k \in Indices(Cur) :
                                 after.add_request[k] = before.add_request[k] + 1}
           IN /\ after.new_batch = before.new_batch + 1
              /\ after.execute = before.execute + 1
              /\ after.new_batch = statistics.attempt_number
              /\ after.execute = statistics.attempt_number
              /\ \A k \in Indices(Cur) :
                    after.add_request[k] \in {before.add_request[k],
                                              before.add_request[k] + 1}
              /\ {handle'[p] : p \in 1..Len(handle')} = registered
              /\ Len(handle') = Cardinality(registered)
      ]_vars

\* A third round ran on a third handle that carries one request only, after
\* rounds whose handles carried two.
C25_Witness ==
    /\ pc = "callbacks"
    /\ calls[Cur].new_batch = 3 /\ calls[Cur].execute = 3
    /\ Len(handle) = 1
    /\ \E k \in Indices(Cur) : calls[Cur].add_request[k] = 2

\* The requests of a Batch that failed, going by its slots.
Failed(batch) == {k \in 1..Len(batch.requests) : HasError(batch, k)}

RoundCompleted(b) == calls[b].execute >= 1 /\ (b = Cur => pending = <<>>)

C28_SettledSlotsStable ==
    [][ \A b \in 1..Len(batches) : \A k \in Indices(b) :
           /\ HasResponse(batches[b], k) =>
                 /\ batches'[b].responses[k] = batches[b].responses[k]
                 /\ batches'[b].errors[k] = None
           /\ PermanentError(batches[b], k) =>
                 /\ batches'[b].errors[k] = batches[b].errors[k]
                 /\ batches'[b].responses[k] = None
      ]_vars

\* The Batch was executed a second time after exhausting its attempts: one
\* slot kept the response of the very first round, registered once, while
\* the other was registered in every round of both calls.
C28_Witness ==
    /\ pc = "batch_ended"
    /\ Len(batches) = 1
    /\ calls[1].begun = 2
    /\ Len(batches[1].requests) = 2
    /\ \E k \in Indices(1) :
          HasResponse(batches[1], k) /\ calls[1].add_request[k] = 1
    /\ \E k \in Indices(1) : calls[1].add_request[k] = calls[1].new_batch
    /\ calls[1].new_batch >= 3

\* Some Batch of the uploader ended with retry exhaustion.
SomeBatchExhausted == \E b \in 1..Len(batches) : calls[b].outcome = "RetryError"

\* C29: if the Batch of any chunk ends with RetryError, the uploader's execute
\* still executes the Batches of all remaining chunks and then raises
\* BatchExecutionError; conversely, when its first call returns normally,
\* every request has a response and no Batch was exhausted.
C29_ExhaustionEndsInBatchExecutionError ==
    UploaderRan =>
        /\ SomeBatchExhausted =>
              /\ Len(batches) = CeilDiv(Len(requests), chunk_size)
              /\ \A b \in 1..Len(batches) : Rounds(b) >= 1 /\ Finished(b)
              /\ pc = "raised" /\ raised = "BatchExecutionError"
        /\ pc = "returned" =>
              /\ ~SomeBatchExhausted
              /\ Len(batches) = CeilDiv(Len(requests), chunk_size)
              /\ \A n \in 1..Len(requests) :
                    /\ UploaderResponses(batches)[n] # None
                    /\ UploaderErrors(batches)[n] = None

\* The first of three chunks was exhausted, the two after it were executed and
\* every request of theirs succeeded, and BatchExecutionError was raised.
C29_Witness ==
    /\ pc = "raised" /\ raised = "BatchExecutionError"
    /\ Len(batches) = 3
    /\ calls[1].outcome = "RetryError"
    /\ \A b \in 2..3 : \A k \in Indices(b) : HasResponse(batches[b], k)
    /\ \A b \in 2..3 : calls[b].outcome = "returned"

\* The Batches the most recent execute call created: one per chunk, at the
\* end of the uploader's list.
BatchesOfLastCall ==
    {b \in 1..Len(batches) :
        b > Len(batches) - CeilDiv(Len(requests), chunk_size)}

\* C30: the outcome of a call of the uploader's execute depends only on the
\* Batches created during that call: a call in which every request succeeds
\* returns normally, also after an earlier call on the same uploader that
\* ended with BatchExecutionError.
C30_OutcomeDependsOnOwnBatches ==
    (UploaderRan /\ executions >= 1
       /\ \A b \in BatchesOfLastCall : \A k \in Indices(b) :
             HasResponse(batches[b], k))
    => (pc = "returned" /\ raised = "None")

\* What holds of a Batch during whose execute the remote client raised: it is
\* the last Batch the uploader created, no round followed the one that was
\* interrupted, and the exception is what the uploader's execute ends with.
ClientExceptionSurfaced(b) ==
    /\ b = Len(batches)
    /\ calls[b].new_batch \in {statistics.attempt_number - 1, statistics.attempt_number}
    /\ calls[b].execute = calls[b].new_batch
    /\ pc \in {"batch_done", "raised"}
    /\ pc = "raised" => raised = "FacebookRequestError"
    /\ raised # "BatchExecutionError"
    /\ exception_msg = None

\* C31: an exception raised by the remote batch client itself during a round
\* is not retried: it leaves FacebookBatch.execute after that round and the
\* uploader's execute after it, so no Batch is created for a later chunk and
\* no BatchExecutionError is raised; the slots recorded before the exception
\* keep their values.
C31_ClientExceptionPropagates ==
    [][ \A b \in 1..Len(batches) :
           calls'[b].outcome = "FacebookRequestError" =>
              /\ ClientExceptionSurfaced(b)'
              /\ batches' = batches
      ]_vars

\* The client raised in the second round of the first of two chunks, after
\* the first round had recorded a response and a transient error: the
\* exception left the uploader and the second chunk got no Batch.
C31_Witness ==
    /\ pc = "raised" /\ raised = "FacebookRequestError"
    /\ Len(requests) = 3 /\ chunk_size = 2
    /\ Len(batches) = 1
    /\ calls[1].new_batch = 2
    /\ \E k \in Indices(1) : HasResponse(batches[1], k)
    /\ \E k \in Indices(1) : TransientError(batches[1], k)

\* A later call of execute on the Batch is running; until the call decides,
\* calls[Cur].outcome is still how the call before it ended.
CalledAgain ==
    /\ pc \in {"attempt", "callbacks", "sleep"}
    /\ Cur >= 1
    /\ calls[Cur].begun >= 2
AfterReturn == CalledAgain /\ calls[Cur].outcome = "returned"
AfterExhaustion == CalledAgain /\ calls[Cur].outcome = "RetryError"

\* C32: execute called again on a Batch whose previous execute returned
\* normally performs exactly one round that registers no request, leaves every
\* slot unchanged and returns normally; called again after retry exhaustion
\* it starts a new budget of up to MAX_ATTEMPTS rounds, which register only
\* the indices whose error is still transient.
C32_ExecuteAgainOnBatch ==
    [][ /\ AfterReturn =>
              /\ batches' = batches
              /\ statistics.attempt_number = 1
              /\ pc # "sleep"
              /\ RoundStep => handle' = <<>>
              /\ DecisionStep => outcome' = "returned"
        /\ AfterExhaustion =>
              /\ statistics.attempt_number <= MAX_ATTEMPTS
              /\ RoundStep =>
                    /\ handle' # <<>>
                    /\ \A k \in Indices(Cur) :
                          InHandle(handle', k) <=> TransientError(batches[Cur], k)
              /\ DecisionStep =>
                    LET again == should_retry_facebook_batch(batches[Cur])
                        k == statistics.attempt_number
                    IN /\ pc' = "sleep" <=> (again /\ k < MAX_ATTEMPTS)
                       /\ outcome' = "RetryError" <=> (again /\ k = MAX_ATTEMPTS)
        /\ (pc \in {"batch_constructed", "batch_ended"} /\ pc' = "attempt") =>
              statistics'.attempt_number = 1
      ]_vars

\* The third call on a Batch is in its only round, with nothing registered:
\* the first call ended in exhaustion, the second began a new budget, carried
\* the transient request through its rounds and returned.
C32_Witness ==
    /\ pc = "callbacks"
    /\ calls[Cur].begun = 3
    /\ calls[Cur].outcome = "returned"
    /\ handle = <<>>
    /\ statistics.attempt_number = 1
    /\ calls[Cur].new_batch >= 5
    /\ \E k \in Indices(Cur) : calls[Cur].add_request[k] = calls[Cur].new_batch - 1
    /\ \E k \in Indices(Cur) : calls[Cur].add_request[k] = 1

\* ------------------------------------- the single-module FacebookBatch
\* batch_uploaders/facebook.py holds the same FacebookBatch, line for line,
\* but imports its retry predicate from batch_uploaders/retries.py.
LegacyRetryCondition(settings, batch) ==
    settings.retry = "retry_if_result" /\ should_retry_facebook_batch_legacy(batch)

\* The decision after an attempt of the single-module FacebookBatch, whose
\* retry_if_result holds the predicate of batch_uploaders/retries.py.
LegacyAfterAttempt ==
    /\ pc = "callbacks"
    /\ pending = <<>>
    /\ LET again == LegacyRetryCondition(retry_settings, batches[Cur])
           stop == StopCondition(retry_settings, statistics.attempt_number)
           sleep == WaitSeconds(retry_settings, statistics.attempt_number, wait_exponent)
           ended == IF ~again THEN "returned" ELSE IF stop THEN "RetryError" ELSE "None"
       IN
       /\ calls' = [calls EXCEPT ![Cur] =
                      [@ EXCEPT !.retried_always =
                                    @ /\ should_retry_facebook_batch_legacy(batches[Cur]),
                                !.outcome = ended,
                                !.idle_for = IF ended = "None"
                                             THEN statistics.idle_for + sleep
                                             ELSE statistics.idle_for,
                                !.waits = IF ended = "None"
                                          THEN Append(@, sleep) ELSE @]]
       /\ IF ended # "None"
          THEN /\ outcome' = ended
               /\ pc' = "batch_done"
               /\ UNCHANGED statistics
          ELSE /\ statistics' = [attempt_number |-> statistics.attempt_number + 1,
                                 idle_for |-> statistics.idle_for + sleep]
               /\ pc' = "sleep"
               /\ UNCHANGED outcome
    /\ UNCHANGED <<requests, executions, batches, chunk_size, i, raised, exception_msg,
                   MAX_ATTEMPTS, wait_settings, wait_exponent, retry_settings, handle,
                   pending, reads>>

NextLegacy ==
    \/ ConstructBatch
    \/ \E own \in OwnSettings : DirectExecute(own, 1)
    \/ Attempt
    \/ SuccessCallback
    \/ \E e \in RequestErrors : FailureCallback(e)
    \/ LegacyAfterAttempt
    \/ Sleep
    \/ DirectExecuteEnds

SpecLegacy == InitBatch /\ [][NextLegacy]_vars

\* Every slot of the Batch holds an error the platform itself flagged transient.
EverySlotFlagged(batch) ==
    \A k \in 1..Len(batch.requests) :
        HasError(batch, k) /\ batch.errors[k].request_error.api_transient_error

InitChunks == Init /\ MAX_ATTEMPTS = 2
SpecChunks == InitChunks /\ [][Next]_vars

\* ------------------------------- the uploader with Batch.execute stubbed
\* The uploader as the repository's tests run it for the chunking: over request
\* lists of any length, with FacebookBatch.execute patched by a mock, which
\* returns at once and leaves the slots of the Batch alone.
InitStubbed ==
    /\ requests \in ConstructorInputs
    /\ MAX_ATTEMPTS = DEFAULT_MAX_ATTEMPTS
    /\ wait_settings = DefaultWaitSettings
    /\ wait_exponent \in WaitExponents
    /\ executions = 0
    /\ batches = <<>>
    /\ chunk_size = 0
    /\ i = 0
    /\ pc = "constructed"
    /\ raised = "None"
    /\ exception_msg = None
    /\ retry_settings = DefaultRetrying
    /\ statistics = [attempt_number |-> 0, idle_for |-> 0]
    /\ handle = <<>>
    /\ pending = <<>>
    /\ outcome = "None"
    /\ calls = <<>>
    /\ reads = 0

\* Variant: after the mock returned the loop advances by one more than
\* chunk_size.
StubbedBatchExecuteSkipsOne ==
    /\ pc = "batch_execute"
    /\ calls' = [calls EXCEPT ![Cur].begun = @ + 1]
    /\ i' = i + chunk_size + 1
    /\ pc' = "loop"
    /\ UNCHANGED <<requests, executions, batches, chunk_size, raised, exception_msg,
                   MAX_ATTEMPTS, wait_settings, wait_exponent, retry_settings,
                   statistics, handle, pending, outcome, reads>>

\* batch.execute() is the mock: called once, it returns, and the loop goes on.
StubbedBatchExecute ==
    /\ pc = "batch_execute"
    /\ calls' = [calls EXCEPT ![Cur].begun = @ + 1]
    /\ i' = i + chunk_size
    /\ pc' = "loop"
    /\ UNCHANGED <<requests, executions, batches, chunk_size, raised, exception_msg,
                   MAX_ATTEMPTS, wait_settings, wait_exponent, retry_settings,
                   statistics, handle, pending, outcome, reads>>

\* The chunk sizes tried, with the one the tests use.
StubbedChunkSizes == ChunkSizes \cup {TestChunkSize}

NextStubbed ==
    \/ \E c \in StubbedChunkSizes : UploaderExecute(c)
    \/ CreateBatch
    \/ StubbedBatchExecute
    \/ RaiseOrReturn

SpecStubbed == InitStubbed /\ [][NextStubbed]_vars

\* execute was called with a chunk size inside the limits.
ValidChunkSize == executions >= 1 /\ chunk_size \in 1..MAX_CHUNK_SIZE

\* C34: for every request list and every valid chunk_size, each Batch the
\* uploader's execute constructs holds between 1 and chunk_size requests, so
\* the errors of the Batch constructor never come out of the uploader's
\* execute.
C34_BatchesWithinLimits ==
    ValidChunkSize =>
        /\ \A b \in 1..Len(batches) :
              /\ Len(batches[b].requests) >= 1
              /\ Len(batches[b].requests) <= chunk_size
              /\ Len(batches[b].requests) <= MAX_REQUESTS_PER_BATCH
        /\ raised \notin {"NoFacebookRequestProvidedError",
                          "TooManyRequestsPerBatchError"}

\* Fifty-two requests went through in chunks of fifty: the uploader ended
\* with a Batch at the constructor's limit and a Batch of the two left.
C34_Witness ==
    /\ UploaderRan
    /\ chunk_size = MAX_CHUNK_SIZE
    /\ Len(requests) = 52
    /\ Len(batches) = 2
    /\ Len(batches[1].requests) = MAX_REQUESTS_PER_BATCH
    /\ Len(batches[2].requests) = 2

\* C35: the uploader's execute on an empty request list, with any valid
\* chunk_size, creates no Batch, never calls the remote batch client and
\* returns normally, with responses, errors and items all empty.
C35_EmptyListReturnsEmpty ==
    (Len(requests) = 0 /\ ValidChunkSize) =>
        /\ batches = <<>>
        /\ calls = <<>>
        /\ handle = <<>> /\ pending = <<>>
        /\ statistics.attempt_number = 0
        /\ pc \in {"loop", "returned"}
        /\ raised = "None" /\ exception_msg = None
        /\ AccessorValues.requests = <<>>
        /\ AccessorValues.responses = <<>>
        /\ AccessorValues.errors = <<>>
        /\ AccessorValues.items = <<>>

\* execute with the largest chunk size has returned on an uploader without
\* requests.
C35_Witness ==
    /\ Len(requests) = 0
    /\ executions = 1
    /\ chunk_size = MAX_CHUNK_SIZE
    /\ pc = "returned"
    /\ batches = <<>>

\* Python's round(n / c) for natural n and positive c: to the nearest integer,
\* a tie going to the even one.
PyRound(n, c) ==
    LET q == n \div c
        r == n % c
    IN IF 2 * r < c THEN q
       ELSE IF 2 * r > c THEN q + 1
       ELSE IF q % 2 = 0 THEN q ELSE q + 1

\* C36 as stated: the uploader's execute generates round(len(requests) /
\* chunk_size) Batches, for every request list and valid chunk_size.
C36_BatchesAreRoundedQuotient ==
    UploaderRan => Len(batches) = PyRound(Len(requests), chunk_size)

\* C36, amended: the uploader's execute generates ceil(len(requests) /
\* chunk_size) Batches, for every request list and valid chunk_size; that is
\* round(len(requests) / chunk_size) exactly when the division leaves no
\* remainder, a remainder above half of chunk_size, or a remainder of just
\* half with an odd quotient.
C36_BatchesAreCeilingOfQuotient ==
    UploaderRan =>
        LET q == Len(requests) \div chunk_size
            r == Len(requests) % chunk_size
        IN /\ Len(batches) = CeilDiv(Len(requests), chunk_size)
           /\ Len(batches) = (IF r = 0 THEN q ELSE q + 1)
           /\ (Len(batches) = PyRound(Len(requests), chunk_size))
                 <=> \/ r = 0
                     \/ 2 * r > chunk_size
                     \/ 2 * r = chunk_size /\ q % 2 = 1

\* Fifty-two requests in chunks of fifty ended as two Batches, where the
\* rounded quotient is one.
C36_Witness ==
    /\ UploaderRan
    /\ Len(requests) = 52
    /\ chunk_size = MAX_CHUNK_SIZE
    /\ Len(batches) = 2
    /\ PyRound(Len(requests), chunk_size) = 1
====
